---- MODULE Spec2Model ----
\* Model of `nerdctl container prune` (cmd/nerdctl/container_prune.go):
\* containerPruneAction, statement by statement, with the runtime client, the
\* flag set, the input stream and removeContainer as the environment.
EXTENDS Integers, Sequences, FiniteSets, TLC

\* ---------------------------------------------------------------- bounds
MaxInputLen == 2
MaxContainers == 3
MaxOtherSteps == 2

\* ---------------------------------------------------------------- inputs
\* Runes that may sit on the input stream.
Runes == {"y", "Y", "n", " ", "\n"}
\* Container identifiers the runtime may hold (unique within a namespace).
IDs == {"a", "b", "c"}
Namespaces == {"default", "k8s.io"}
\* What removeContainer may return: nil, a statusError, or any other error.
RemoveResults == {"nil", "statusError", "otherError"}

Range(s) == {s[i] : i \in 1..Len(s)}
SeqsUpTo(S, n) == UNION {[1..k -> S] : k \in 0..n}
InputStreams == SeqsUpTo(Runes, MaxInputLen)
ContainerLists ==
    {s \in SeqsUpTo(IDs, MaxContainers) :
        \A i, j \in 1..Len(s) : i # j => s[i] # s[j]}

\* ---------------------------------------------------------------- runtime
\* The runtime's container table: every identifier is unused ("none"), held
\* by a stopped or a running container, or was held by a removed one ("gone").
Present(w) == {id \in IDs : w[id] \in {"stopped", "running"}}
Worlds ==
    {w \in [IDs -> {"none", "stopped", "running"}] :
        Cardinality(Present(w)) <= MaxContainers}
\* client.Containers lists the containers present, in some order.
Snapshots(w) == {cs \in ContainerLists : Range(cs) = Present(w)}
\* What an unforced removeContainer may return for a container in state st:
\* a stopped one is removed unless something else fails, a running one is
\* rejected with a statusError, one that no longer exists is not found.
RemoveOutcomes(st) ==
    CASE st = "stopped" -> {"nil", "otherError"}
      [] st = "running" -> {"statusError", "otherError"}
      [] OTHER -> {"otherError"}

\* ---------------------------------------------------------------- text
Prompt == [text |-> "WARNING! This will remove all stopped containers.\nAre you sure you want to continue? [y/N] ",
           newline |-> FALSE]
Header == [text |-> "Deleted Containers:", newline |-> TRUE]
Line(id) == [text |-> id, newline |-> TRUE]

\* ---------------------------------------------------------------- fmt.Fscanf(in, "%s", &confirm)
\* Leading blanks are skipped; a newline before the token is an error and
\* EOF ends the scan: in both cases confirm keeps its zero value "".
RECURSIVE SkipSpace(_)
SkipSpace(s) ==
    IF s = <<>> THEN [ok |-> FALSE, rest |-> <<>>]
    ELSE IF Head(s) = "\n" THEN [ok |-> FALSE, rest |-> Tail(s)]
    ELSE IF Head(s) = " " THEN SkipSpace(Tail(s))
    ELSE [ok |-> TRUE, rest |-> s]

\* The token is the maximal run of non-space runes.
RECURSIVE Token(_)
Token(s) ==
    IF s = <<>> \/ Head(s) \in {" ", "\n"} THEN <<>>
    ELSE <<Head(s)>> \o Token(Tail(s))

Fscanf(s) == LET sk == SkipSpace(s) IN IF sk.ok THEN Token(sk.rest) ELSE <<>>

\* ---------------------------------------------------------------- strings.ToLower
LowerRuneBroken(r) == r
LowerRune(r) == IF r = "Y" THEN "y" ELSE r
ToLower(s) == [i \in 1..Len(s) |-> LowerRune(s[i])]

\* strings.ToLower(confirm) != "y"
DeclinesBroken(confirm) == confirm # <<"y">> /\ confirm # <<>>
Declines(confirm) == ToLower(confirm) # <<"y">>

\* errors.As(err, &statusError{})
IsStatusError(e) == e = "statusError"

\* ---------------------------------------------------------------- loop body
\* removeContainer(cmd, ctx, container, ns, false, true)
RemoveArgsBroken(id, n, f) == [id |-> id, ns |-> n, force |-> f, bestEffort |-> TRUE]
RemoveArgs(id, n, f) == [id |-> id, ns |-> n, force |-> FALSE, bestEffort |-> TRUE]

\* deleted = append(deleted, container.ID()) on err == nil
AppendDeletedBroken(deleted, id, e) ==
    IF e # "otherError" THEN Append(deleted, id) ELSE deleted
AppendDeleted(deleted, id, e) ==
    IF e = "nil" THEN Append(deleted, id) ELSE deleted

\* logrus.WithError(err).Warnf("failed to remove container %s", id)
WarnBroken(warnings, id, e) ==
    IF e # "nil"
    THEN Append(warnings, [id |-> id, err |-> e])
    ELSE warnings
WarnSilent(warnings, id, e) == warnings
Warn(warnings, id, e) ==
    IF e # "nil" /\ ~IsStatusError(e)
    THEN Append(warnings, [id |-> id, err |-> e])
    ELSE warnings

\* ---------------------------------------------------------------- report
RECURSIVE Lines(_)
Lines(ids) == IF ids = <<>> THEN <<>> ELSE <<Line(Head(ids))>> \o Lines(Tail(ids))

ReportLinesBroken(deleted) == <<Header>> \o Lines(deleted)
ReportLines(deleted) ==
    IF Len(deleted) > 0 THEN <<Header>> \o Lines(deleted) ELSE <<>>

\* ---------------------------------------------------------------- state
VARIABLES
    pc,          \* position in containerPruneAction
    forceFlag,   \* --force / -f as given on the command line
    stdin,       \* content of cmd.InOrStdin()
    force,       \* local `force`
    confirm,     \* local `confirm`
    ns,          \* local `ns`
    containers,  \* local `containers`
    idx,         \* index of the next container of the range loop
    deleted,     \* local `deleted`
    results,     \* what each removeContainer call returned, in call order
    removeCalls, \* arguments of each removeContainer call, in call order
    out,         \* writes to cmd.OutOrStdout(), in order
    warnings,    \* logrus warnings, in order
    trace,       \* calls made so far, in order
    cancels,     \* number of times cancel() ran
    err,         \* local `err`
    world,       \* the runtime's container table
    snap,        \* the container table as it was when client.Containers ran
    seen,        \* state of each instance when its removeContainer call ran
    others,      \* number of changes other actors made to the container table
    ret          \* return value of containerPruneAction

vars == <<pc, forceFlag, stdin, force, confirm, ns, containers, idx, deleted,
          results, removeCalls, out, warnings, trace, cancels, err, ret,
          world, snap, seen, others>>

Init ==
    /\ pc = "newClient"
    /\ forceFlag \in BOOLEAN
    /\ stdin \in InputStreams
    /\ force = FALSE
    /\ confirm = <<>>
    /\ ns = ""
    /\ containers = <<>>
    /\ idx = 1
    /\ deleted = <<>>
    /\ results = <<>>
    /\ removeCalls = <<>>
    /\ out = <<>>
    /\ warnings = <<>>
    /\ trace = <<>>
    /\ cancels = 0
    /\ err = "nil"
    /\ ret = "running"
    /\ world \in Worlds
    /\ snap = [id \in IDs |-> "none"]
    /\ seen = <<>>
    /\ others = 0

\* return r, with the deferred cancel() of line 46
ReturnNoCancel(r, tr) ==
    /\ ret' = r
    /\ pc' = "done"
    /\ cancels' = cancels
    /\ trace' = tr
Return(r, tr) ==
    /\ ret' = r
    /\ pc' = "done"
    /\ cancels' = cancels + 1
    /\ trace' = tr \o <<"cancel">>

\* client, ctx, cancel, err := newClient(cmd)
NewClientOk ==
    /\ pc = "newClient"
    /\ UNCHANGED <<world, snap, seen, others>>
    /\ err' = "nil"
    /\ pc' = "getForce"
    /\ trace' = Append(trace, "newClient")
    /\ UNCHANGED <<forceFlag, stdin, force, confirm, ns, containers, idx,
                   deleted, results, removeCalls, out, warnings, cancels, ret>>

\* newClient fails: return err, cancel not yet deferred
NewClientErrAfterGate ==
    /\ pc = "newClient"
    /\ UNCHANGED <<world, snap, seen, others>>
    /\ err' = "errNewClient"
    /\ pc' = "done"
    /\ ret' = err'
    /\ out' = IF forceFlag THEN out ELSE Append(out, Prompt)
    /\ trace' = IF forceFlag THEN <<"newClient">> ELSE <<"Fprintf", "Fscanf", "newClient">>
    /\ UNCHANGED <<forceFlag, stdin, force, confirm, ns, containers, idx,
                   deleted, results, removeCalls, warnings, cancels>>
NewClientErr ==
    /\ pc = "newClient"
    /\ UNCHANGED <<world, snap, seen, others>>
    /\ err' = "errNewClient"
    /\ pc' = "done"
    /\ ret' = err'
    /\ trace' = Append(trace, "newClient")
    /\ UNCHANGED <<forceFlag, stdin, force, confirm, ns, containers, idx,
                   deleted, results, removeCalls, out, warnings, cancels>>

\* force, err := cmd.Flags().GetBool("force")
GetForceOk ==
    /\ pc = "getForce"
    /\ UNCHANGED <<world, snap, seen, others>>
    /\ err' = "nil"
    /\ force' = forceFlag
    /\ pc' = "gate"
    /\ trace' = Append(trace, "GetBool")
    /\ UNCHANGED <<forceFlag, stdin, confirm, ns, containers, idx, deleted,
                   results, removeCalls, out, warnings, cancels, ret>>

GetForceErr ==
    /\ pc = "getForce"
    /\ UNCHANGED <<world, snap, seen, others>>
    /\ err' = "errForce"
    /\ Return(err', Append(trace, "GetBool"))
    /\ UNCHANGED <<forceFlag, stdin, force, confirm, ns, containers, idx,
                   deleted, results, removeCalls, out, warnings>>

\* if !force { fmt.Fprintf(out, prompt) ... } else fall through to line 63
GateBroken ==
    /\ pc = "gate"
    /\ UNCHANGED <<world, snap, seen, others>>
    /\ UNCHANGED err
    /\ out' = Append(out, Prompt)
    /\ trace' = Append(trace, "Fprintf")
    /\ pc' = IF force THEN "getNs" ELSE "scan"
    /\ UNCHANGED <<forceFlag, stdin, force, confirm, ns, containers, idx,
                   deleted, results, removeCalls, warnings, cancels, ret>>
Gate ==
    /\ pc = "gate"
    /\ UNCHANGED <<world, snap, seen, others>>
    /\ UNCHANGED err
    /\ IF force
       THEN /\ pc' = "getNs"
            /\ UNCHANGED <<out, trace>>
       ELSE /\ out' = Append(out, Prompt)
            /\ trace' = Append(trace, "Fprintf")
            /\ pc' = "scan"
    /\ UNCHANGED <<forceFlag, stdin, force, confirm, ns, containers, idx,
                   deleted, results, removeCalls, warnings, cancels, ret>>

\* fmt.Fscanf(in, "%s", &confirm); if ToLower(confirm) != "y" { return nil }
ScanBroken ==
    /\ pc = "scan"
    /\ UNCHANGED <<world, snap, seen, others>>
    /\ UNCHANGED err
    /\ confirm' = Fscanf(stdin)
    /\ IF Declines(confirm')
       THEN Return("errDeclined", Append(trace, "Fscanf"))
       ELSE /\ pc' = "getNs"
            /\ trace' = Append(trace, "Fscanf")
            /\ UNCHANGED <<cancels, ret>>
    /\ UNCHANGED <<forceFlag, stdin, force, ns, containers, idx, deleted,
                   results, removeCalls, out, warnings>>
ScanReprompt ==
    /\ pc = "scan"
    /\ UNCHANGED <<world, snap, seen, others>>
    /\ UNCHANGED err
    /\ confirm' = Fscanf(stdin)
    /\ IF Declines(confirm')
       THEN /\ pc' = "gate"
            /\ out' = <<>>
            /\ trace' = <<"newClient", "GetBool">>
            /\ UNCHANGED <<cancels, ret>>
       ELSE /\ pc' = "getNs"
            /\ trace' = Append(trace, "Fscanf")
            /\ UNCHANGED <<out, cancels, ret>>
    /\ UNCHANGED <<forceFlag, stdin, force, ns, containers, idx, deleted,
                   results, removeCalls, warnings>>
Scan ==
    /\ pc = "scan"
    /\ UNCHANGED <<world, snap, seen, others>>
    /\ UNCHANGED err
    /\ confirm' = Fscanf(stdin)
    /\ IF Declines(confirm')
       THEN Return("nil", Append(trace, "Fscanf"))
       ELSE /\ pc' = "getNs"
            /\ trace' = Append(trace, "Fscanf")
            /\ UNCHANGED <<cancels, ret>>
    /\ UNCHANGED <<forceFlag, stdin, force, ns, containers, idx, deleted,
                   results, removeCalls, out, warnings>>

\* ns, err := cmd.Flags().GetString("namespace")
GetNamespaceOk ==
    /\ pc = "getNs"
    /\ UNCHANGED <<world, snap, seen, others>>
    /\ err' = "nil"
    /\ \E n \in Namespaces : ns' = n
    /\ pc' = "enumerate"
    /\ trace' = Append(trace, "GetString")
    /\ UNCHANGED <<forceFlag, stdin, force, confirm, containers, idx, deleted,
                   results, removeCalls, out, warnings, cancels, ret>>

GetNamespaceErr ==
    /\ pc = "getNs"
    /\ UNCHANGED <<world, snap, seen, others>>
    /\ err' = "errNamespace"
    /\ Return(err', Append(trace, "GetString"))
    /\ UNCHANGED <<forceFlag, stdin, force, confirm, ns, containers, idx,
                   deleted, results, removeCalls, out, warnings>>

\* containers, err := client.Containers(ctx)
EnumerateOk ==
    /\ pc = "enumerate"
    /\ err' = "nil"
    /\ \E cs \in Snapshots(world) :
        /\ containers' = cs
        /\ pc' = IF cs = <<>> THEN "report" ELSE "loop"
    /\ snap' = world
    /\ UNCHANGED <<world, seen, others>>
    /\ trace' = Append(trace, "Containers")
    /\ UNCHANGED <<forceFlag, stdin, force, confirm, ns, idx, deleted,
                   results, removeCalls, out, warnings, cancels, ret>>

EnumerateErrBroken ==
    /\ pc = "enumerate"
    /\ err' = "errContainers"
    /\ \E cs \in Snapshots(world) :
        /\ containers' = cs
        /\ pc' = IF cs = <<>> THEN "report" ELSE "loop"
    /\ ret' = err'
    /\ snap' = world
    /\ UNCHANGED <<world, seen, others>>
    /\ trace' = Append(trace, "Containers")
    /\ UNCHANGED <<forceFlag, stdin, force, confirm, ns, idx, deleted,
                   results, removeCalls, out, warnings, cancels>>
EnumerateErr ==
    /\ pc = "enumerate"
    /\ UNCHANGED <<world, snap, seen, others>>
    /\ err' = "errContainers"
    /\ Return(err', Append(trace, "Containers"))
    /\ UNCHANGED <<forceFlag, stdin, force, confirm, ns, containers, idx,
                   deleted, results, removeCalls, out, warnings>>

\* one iteration of `for _, container := range containers`
RemoveStepAbort ==
    /\ pc = "loop"
    /\ idx <= Len(containers)
    /\ \E e \in RemoveOutcomes(world[containers[idx]]) :
        LET id == containers[idx] IN
        /\ world' = IF e = "nil" THEN [world EXCEPT ![id] = "gone"] ELSE world
        /\ seen' = Append(seen, world[id])
        /\ removeCalls' = Append(removeCalls, RemoveArgs(id, ns, force))
        /\ err' = e
        /\ results' = Append(results, e)
        /\ deleted' = AppendDeleted(deleted, id, e)
        /\ IF e = "otherError"
           THEN /\ Return(e, Append(trace, "removeContainer"))
                /\ UNCHANGED <<warnings, idx>>
           ELSE /\ warnings' = Warn(warnings, id, e)
                /\ trace' = Append(trace, "removeContainer")
                /\ idx' = idx + 1
                /\ pc' = IF idx = Len(containers) THEN "report" ELSE "loop"
                /\ UNCHANGED <<cancels, ret>>
    /\ UNCHANGED <<snap, others>>
    /\ UNCHANGED <<forceFlag, stdin, force, confirm, ns, containers, out>>
RemoveStepRetry ==
    /\ pc = "loop"
    /\ idx <= Len(containers)
    /\ \E e \in RemoveOutcomes(world[containers[idx]]) :
        LET id == containers[idx] IN
        /\ world' = IF e = "nil" THEN [world EXCEPT ![id] = "gone"] ELSE world
        /\ seen' = Append(seen, world[id])
        /\ removeCalls' = Append(removeCalls, RemoveArgs(id, ns, force))
        /\ err' = e
        /\ results' = Append(results, e)
        /\ deleted' = AppendDeleted(deleted, id, e)
        /\ warnings' = Warn(warnings, id, e)
        /\ trace' = IF warnings' # warnings
                    THEN trace \o <<"removeContainer", "Warnf">>
                    ELSE Append(trace, "removeContainer")
        /\ idx' = IF e = "otherError" THEN idx ELSE idx + 1
        /\ pc' = IF idx' > Len(containers) THEN "report" ELSE "loop"
    /\ UNCHANGED <<snap, others>>
    /\ UNCHANGED <<forceFlag, stdin, force, confirm, ns, containers, out,
                   cancels, ret>>
RemoveStep ==
    /\ pc = "loop"
    /\ idx <= Len(containers)
    /\ \E e \in RemoveOutcomes(world[containers[idx]]) :
        LET id == containers[idx] IN
        /\ world' = IF e = "nil" THEN [world EXCEPT ![id] = "gone"] ELSE world
        /\ seen' = Append(seen, world[id])
        /\ removeCalls' = Append(removeCalls, RemoveArgs(id, ns, force))
        /\ err' = e
        /\ results' = Append(results, e)
        /\ deleted' = AppendDeleted(deleted, id, e)
        /\ warnings' = Warn(warnings, id, e)
        /\ trace' = IF warnings' # warnings
                    THEN trace \o <<"removeContainer", "Warnf">>
                    ELSE Append(trace, "removeContainer")
    /\ idx' = idx + 1
    /\ pc' = IF idx = Len(containers) THEN "report" ELSE "loop"
    /\ UNCHANGED <<snap, others>>
    /\ UNCHANGED <<forceFlag, stdin, force, confirm, ns, containers, out,
                   cancels, ret>>

\* if len(deleted) > 0 { header; one line per id }; return nil
ReportBroken ==
    /\ pc = "report"
    /\ UNCHANGED <<world, snap, seen, others>>
    /\ UNCHANGED err
    /\ out' = out \o ReportLines(deleted)
    /\ Return(IF warnings = <<>> THEN "nil" ELSE "errRemove",
              trace \o [i \in 1..Len(ReportLines(deleted)) |-> "Fprintln"])
    /\ UNCHANGED <<forceFlag, stdin, force, confirm, ns, containers, idx,
                   deleted, results, removeCalls, warnings>>
Report ==
    /\ pc = "report"
    /\ UNCHANGED <<world, snap, seen, others>>
    /\ UNCHANGED err
    /\ out' = out \o ReportLines(deleted)
    /\ Return("nil", trace \o [i \in 1..Len(ReportLines(deleted)) |-> "Fprintln"])
    /\ UNCHANGED <<forceFlag, stdin, force, confirm, ns, containers, idx,
                   deleted, results, removeCalls, warnings>>

Next ==
    \/ NewClientOk
    \/ NewClientErr
    \/ GetForceOk
    \/ GetForceErr
    \/ Gate
    \/ Scan
    \/ GetNamespaceOk
    \/ GetNamespaceErr
    \/ EnumerateOk
    \/ EnumerateErr
    \/ RemoveStep
    \/ Report

Spec == Init /\ [][Next]_vars

\* ---------------------------------------------------------------- blocking calls
\* client.Containers and removeContainer block on the runtime; neither call
\* is given a deadline, so one that never returns leaves the command in it.
EnumerateHang ==
    /\ pc = "enumerate"
    /\ pc' = "hungContainers"
    /\ trace' = Append(trace, "Containers")
    /\ UNCHANGED <<forceFlag, stdin, force, confirm, ns, containers, idx,
                   deleted, results, removeCalls, out, warnings, cancels, err,
                   ret, world, snap, seen, others>>

RemoveHang ==
    /\ pc = "loop"
    /\ idx <= Len(containers)
    /\ pc' = "hungRemove"
    /\ removeCalls' = Append(removeCalls, RemoveArgs(containers[idx], ns, force))
    /\ trace' = Append(trace, "removeContainer")
    /\ UNCHANGED <<forceFlag, stdin, force, confirm, ns, containers, idx,
                   deleted, results, out, warnings, cancels, err, ret, world,
                   snap, seen, others>>

HangNext ==
    \/ Next
    \/ EnumerateHang
    \/ RemoveHang

\* The command is one thread: it takes its next step unless a call blocks.
HangSpec == Init /\ [][HangNext]_vars /\ WF_vars(HangNext)

\* ---------------------------------------------------------------- other actors
\* Other clients of the runtime create, start, stop and remove containers
\* while prune enumerates and removes; nothing locks the table against them.
prune == <<pc, forceFlag, stdin, force, confirm, ns, containers, idx, deleted,
           results, removeCalls, out, warnings, trace, cancels, err, ret,
           snap, seen>>
Racing == pc \in {"enumerate", "loop"} /\ others < MaxOtherSteps

OtherCreate ==
    /\ Racing
    /\ Cardinality(Present(world)) < MaxContainers
    /\ \E id \in IDs :
        /\ world[id] = "none"
        /\ world' = [world EXCEPT ![id] = "stopped"]
    /\ others' = others + 1
    /\ UNCHANGED prune

OtherStart ==
    /\ Racing
    /\ \E id \in IDs :
        /\ world[id] = "stopped"
        /\ world' = [world EXCEPT ![id] = "running"]
    /\ others' = others + 1
    /\ UNCHANGED prune

OtherStop ==
    /\ Racing
    /\ \E id \in IDs :
        /\ world[id] = "running"
        /\ world' = [world EXCEPT ![id] = "stopped"]
    /\ others' = others + 1
    /\ UNCHANGED prune

OtherRemove ==
    /\ Racing
    /\ \E id \in Present(world) : world' = [world EXCEPT ![id] = "gone"]
    /\ others' = others + 1
    /\ UNCHANGED prune

ConcInit == Init /\ stdin = <<"y">>

ConcNext ==
    \/ Next
    \/ OtherCreate
    \/ OtherStart
    \/ OtherStop
    \/ OtherRemove

ConcSpec == ConcInit /\ [][ConcNext]_vars

\* ---------------------------------------------------------------- properties
Yes == {<<"y">>, <<"Y">>}
Count(label) == Cardinality({i \in 1..Len(trace) : trace[i] = label})
Called(label) == label \in Range(trace)
\* the gate has been decided: force was read and, if not forced, the token too
GateDecided ==
    /\ pc \notin {"newClient", "getForce", "gate", "scan"}
    /\ ret \notin {"errNewClient", "errForce"}
\* the workflow went past the gate, towards the enumeration
Proceeded == pc = "getNs" \/ Called("GetString")
\* the user was asked and did not answer y / Y
Declined == ~force /\ Called("Fscanf") /\ confirm \notin Yes
\* client.Containers returned an error
EnumerationFailed == Called("Containers") /\ results = <<>> /\ err = "errContainers"
\* the enumeration succeeded and every loop iteration is over
LoopOver == Called("Containers") /\ pc \in {"report", "done"} /\ ~EnumerationFailed
\* the report step has run
Reported == LoopOver /\ pc = "done"
\* what the gate has written before the report
GateOutput == IF force THEN <<>> ELSE <<Prompt>>
\* the enumerated identifiers whose removal returned nil, in enumeration order
RECURSIVE Successful(_, _)
Successful(cs, rs) ==
    IF rs = <<>> THEN <<>>
    ELSE (IF Head(rs) = "nil" THEN <<Head(cs)>> ELSE <<>>)
         \o Successful(Tail(cs), Tail(rs))
WarningsFor(id) == {k \in 1..Len(warnings) : warnings[k].id = id}
\* every enumerated instance was attempted once, in enumeration order
AllAttempted ==
    /\ Len(removeCalls) = Len(containers)
    /\ \A j \in 1..Len(containers) : removeCalls[j].id = containers[j]

\* C1: with force false and a token other than "y"/"Y" (empty included), no
\* removal call is ever made and the DeletedSet is empty at termination.
C1_DeclineNoRemoval ==
    (~forceFlag /\ Fscanf(stdin) \notin Yes) =>
        /\ removeCalls = <<>>
        /\ ~Called("removeContainer")
        /\ deleted = <<>>
        /\ (Called("Fscanf") => pc = "done")
C1_Witness ==
    /\ pc = "done" /\ ~forceFlag /\ Called("Fscanf")
    /\ stdin = <<"n", "\n">> /\ confirm = <<"n">>

\* C2: at report time the DeletedSet is exactly the subsequence of the
\* enumerated identifiers whose removal returned success, in attempt order.
C2_DeletedExact ==
    LoopOver =>
        /\ Len(results) = Len(containers)
        /\ deleted = Successful(containers, results)
        /\ Range(deleted) \subseteq Range(containers)
        /\ \A i \in 1..Len(containers) :
               (containers[i] \in Range(deleted)) <=> (results[i] = "nil")
        /\ AllAttempted
C2_Witness ==
    /\ pc = "report"
    /\ results = <<"otherError", "nil", "statusError">>
    /\ deleted = <<containers[2]>>

\* C3: an enumeration error is returned at once: no removal call, nothing
\* reported, no prompt write or input read beyond those of the gate.
C3_EnumerationErrorAborts ==
    EnumerationFailed =>
        /\ pc = "done"
        /\ ret = "errContainers"
        /\ removeCalls = <<>>
        /\ deleted = <<>>
        /\ warnings = <<>>
        /\ out = GateOutput
        /\ Count("Fprintf") = (IF force THEN 0 ELSE 1)
        /\ Count("Fscanf") = (IF force THEN 0 ELSE 1)
        /\ Count("Fprintln") = 0
        /\ trace[Len(trace) - 1] = "Containers"
C3_Witness ==
    /\ pc = "done" /\ ret = "errContainers" /\ ~force /\ confirm = <<"y">>

\* C4: a status rejection is skipped silently: no warning for it, never in
\* the DeletedSet, and every later instance is still attempted.
C4_StatusErrorSkipped ==
    \A i \in 1..Len(results) :
        results[i] = "statusError" =>
            /\ containers[i] \notin Range(deleted)
            /\ WarningsFor(containers[i]) = {}
            /\ pc \in {"loop", "report", "done"}
            /\ (pc = "loop" => idx = Len(results) + 1 /\ idx <= Len(containers))
            /\ (pc # "loop" => AllAttempted)
C4_Witness ==
    /\ pc = "done"
    /\ results = <<"statusError", "nil", "otherError">>
    /\ deleted = <<containers[2]>>
    /\ Len(warnings) = 1

\* C5: any other removal error gives exactly one warning naming the
\* identifier and the error, never enters the DeletedSet, does not stop the
\* later attempts, and the command still returns nil.
C5_OtherErrorWarned ==
    \A i \in 1..Len(results) :
        results[i] = "otherError" =>
            /\ containers[i] \notin Range(deleted)
            /\ Cardinality(WarningsFor(containers[i])) = 1
            /\ \A k \in WarningsFor(containers[i]) : warnings[k].err = results[i]
            /\ pc \in {"loop", "report", "done"}
            /\ (pc = "loop" => idx = Len(results) + 1 /\ idx <= Len(containers))
            /\ (pc # "loop" => AllAttempted)
            /\ (pc = "done" => ret = "nil")
C5_Witness ==
    /\ pc = "done" /\ ret = "nil"
    /\ results = <<"otherError", "otherError", "nil">>
    /\ Len(warnings) = 2
    /\ deleted = <<containers[3]>>

\* C6 (as stated): the command exits non-zero only if the namespace flag
\* cannot be read or the enumeration fails; nothing else gives a non-zero exit.
C6_Original ==
    (pc = "done" /\ ret # "nil") => ret \in {"errNamespace", "errContainers"}
\* C6 (amended): the command returns nil on every completion of the workflow
\* (declined, or run through the report) and an error exactly when client
\* creation, the force flag read, the namespace read or the enumeration
\* failed; a removal failure never gives an error.
C6_ExitCode ==
    pc = "done" =>
        /\ (ret = "nil") <=> (Declined \/ Reported)
        /\ (ret # "nil") <=>
              \/ (ret = "errNewClient" /\ trace = <<"newClient">>)
              \/ (ret = "errForce" /\ trace = <<"newClient", "GetBool", "cancel">>)
              \/ (ret = "errNamespace" /\ trace[Len(trace) - 1] = "GetString")
              \/ (ret = "errContainers" /\ trace[Len(trace) - 1] = "Containers")
        /\ (results # <<>> => ret = "nil")
C6_Witness ==
    /\ pc = "done" /\ ret = "errNewClient" /\ ~forceFlag /\ out = <<>>

\* C7: the gate lets the workflow proceed iff force is true or the token
\* read is "y" or "Y"; with force true it proceeds whatever the input holds.
C7_GateIff ==
    /\ GateDecided => (Proceeded <=> (forceFlag \/ Fscanf(stdin) \in Yes))
    /\ Proceeded => (force \/ confirm \in Yes)
    /\ (GateDecided /\ force) => (Proceeded /\ ~Called("Fscanf"))
C7_Witness ==
    /\ Called("Containers") /\ ~force /\ confirm = <<"Y">> /\ stdin = <<" ", "Y">>

\* C8: a decline aborts with no error and no side effects: no runtime client
\* call, empty report, return nil.
C8_DeclineNoEffects ==
    Declined =>
        /\ pc = "done"
        /\ ret = "nil"
        /\ ~Called("Containers")
        /\ ~Called("removeContainer")
        /\ ~Called("GetString")
        /\ removeCalls = <<>>
        /\ out = <<Prompt>>
        /\ warnings = <<>>
        /\ deleted = <<>>
C8_Witness ==
    /\ pc = "done" /\ ~force /\ Called("Fscanf") /\ confirm = <<>> /\ stdin = <<>>

\* C9: the report writes the header and then one line per DeletedSet
\* identifier in order when the DeletedSet is non-empty, and nothing when it
\* is empty; force, [a, b, c] with only b rejected reports a then c, exit 0.
C9_Report ==
    /\ ~Reported => (out = <<>> \/ out = <<Prompt>>)
    /\ Reported =>
          LET p == Len(GateOutput) IN
          /\ SubSeq(out, 1, p) = GateOutput
          /\ Len(out) - p = (IF deleted = <<>> THEN 0 ELSE Len(deleted) + 1)
          /\ deleted # <<>> =>
                /\ out[p + 1] = [text |-> "Deleted Containers:", newline |-> TRUE]
                /\ \A k \in 1..Len(deleted) :
                       out[p + 1 + k] = [text |-> deleted[k], newline |-> TRUE]
    /\ (Reported /\ force /\ containers = <<"a", "b", "c">>
            /\ results = <<"nil", "statusError", "nil">>) =>
          /\ out = <<Header, Line("a"), Line("c")>>
          /\ ret = "nil"
C9_Witness ==
    /\ Reported /\ force /\ containers = <<"a", "b", "c">>
    /\ results = <<"nil", "statusError", "nil">>
    /\ deleted = <<"a", "c">>

\* C10: not forced, the gate writes the prompt exactly once and then reads
\* the input exactly once, both before the namespace read, the enumeration
\* and any removal; forced, it writes no prompt and never reads the input.
C10_GateIO ==
    /\ forceFlag =>
          /\ Count("Fprintf") = 0
          /\ Count("Fscanf") = 0
          /\ \A i \in 1..Len(out) : out[i] # Prompt
    /\ (~force /\ pc = "scan") =>
          /\ out = <<Prompt>>
          /\ Count("Fprintf") = 1 /\ Count("Fscanf") = 0
    /\ (~force /\ GateDecided) =>
          /\ Count("Fprintf") = 1
          /\ Count("Fscanf") = 1
          /\ Cardinality({i \in 1..Len(out) : out[i] = Prompt}) = 1
          /\ out[1] = Prompt
          /\ \E k \in 1..Len(trace) - 1 :
                /\ trace[k] = "Fprintf"
                /\ trace[k + 1] = "Fscanf"
                /\ \A j \in 1..Len(trace) :
                       trace[j] \in {"GetString", "Containers", "removeContainer"}
                           => j > k + 1
C10_Witness ==
    /\ pc = "done" /\ ~force /\ Len(removeCalls) = 2 /\ Count("Fscanf") = 1

\* C11: every removeContainer call of prune has force = false and
\* bestEffort = true, whatever the command's own force flag is.
C11_RemovalNeverForced ==
    \A i \in 1..Len(removeCalls) :
        /\ removeCalls[i].force = FALSE
        /\ removeCalls[i].bestEffort = TRUE
        /\ removeCalls[i].id = containers[i]
        /\ removeCalls[i].ns = ns
C11_Witness ==
    /\ forceFlag /\ force /\ Len(removeCalls) = 2
    /\ removeCalls[2].force = FALSE /\ removeCalls[2].bestEffort = TRUE

\* C15: the client is created before the force flag is read and before the
\* gate: a failed creation returns the error with no prompt written, no
\* input read, no enumeration and no removal, also when force is false.
C15_ClientFirst ==
    /\ trace # <<>> => trace[1] = "newClient"
    /\ Count("newClient") <= 1
    /\ ret = "errNewClient" =>
          /\ pc = "done"
          /\ trace = <<"newClient">>
          /\ out = <<>>
          /\ confirm = <<>>
          /\ removeCalls = <<>>
          /\ deleted = <<>>
          /\ warnings = <<>>
C15_Witness ==
    /\ pc = "done" /\ ret = "errNewClient"
    /\ ~forceFlag /\ stdin = <<"n">> /\ out = <<>>

\* C16: once the client exists, cancel runs exactly once on every exit path
\* and never before the last enumeration or removal call has returned.
C16_CancelOnce ==
    /\ pc # "done" => (cancels = 0 /\ ~Called("cancel"))
    /\ (pc = "done" /\ ret = "errNewClient") => (cancels = 0 /\ ~Called("cancel"))
    /\ (pc = "done" /\ ret # "errNewClient") =>
          /\ ret \in {"errForce", "nil", "errNamespace", "errContainers"}
          /\ cancels = 1
          /\ Count("cancel") = 1
          /\ trace[Len(trace)] = "cancel"
C16_Witness ==
    /\ pc = "done" /\ ret = "errNamespace" /\ cancels = 1

\* the state of the invocation in the terms of the workflow's state machine
Phase ==
    CASE pc \in {"newClient", "getForce", "gate", "scan"} -> "Init"
      [] pc = "getNs" -> "Confirmed"
      [] pc = "enumerate" -> "Enumerating"
      [] pc = "loop" -> "Removing"
      [] pc = "report" -> "Reporting"
      [] pc = "done" /\ ret # "nil" -> "Failed"
      [] pc = "done" /\ ret = "nil" /\ Called("Containers") -> "Done"
      [] OTHER -> "Aborted"
\* the edges of the state machine as the specification draws it
WorkflowEdges ==
    {<<"Init", "Init">>, <<"Init", "Confirmed">>, <<"Init", "Aborted">>,
     <<"Confirmed", "Enumerating">>,
     <<"Enumerating", "Removing">>, <<"Enumerating", "Reporting">>,
     <<"Removing", "Removing">>, <<"Removing", "Reporting">>,
     <<"Reporting", "Done">>}
\* the returns of a fatal error
FatalEdges ==
    {<<"Init", "Failed">>, <<"Confirmed", "Failed">>, <<"Enumerating", "Failed">>}
Skipped == Cardinality({i \in 1..Len(results) : results[i] = "statusError"})
\* one attempt per instance so far, in enumeration order, one outcome each
OneAttemptEach ==
    /\ Len(removeCalls) = Len(results)
    /\ Len(results) <= Len(containers)
    /\ \A j \in 1..Len(removeCalls) : removeCalls[j].id = containers[j]
    /\ Len(deleted) + Skipped + Len(warnings) = Len(results)
    /\ Phase = "Removing" => (idx = Len(results) + 1 /\ idx <= Len(containers))
    /\ Phase \in {"Reporting", "Done"} => Len(results) = Len(containers)
\* a step out of Removing is exactly one attempt with its outcome
OneAttemptPerStep ==
    Phase = "Removing" =>
        /\ Len(removeCalls') = Len(removeCalls) + 1
        /\ Len(results') = Len(results) + 1
        /\ idx' = idx + 1
\* a step follows one of the edges
StepAlong(edges) == (<<Phase, Phase'>> \in edges) /\ OneAttemptPerStep

\* C12 (as stated): an invocation moves only along Init -> Confirmed|Aborted,
\* Confirmed -> Enumerating -> (Removing -> outcome)* -> Reporting -> Done,
\* with one attempt and one outcome per enumerated instance.
C12_Original ==
    /\ [][StepAlong(WorkflowEdges)]_vars
    /\ []OneAttemptEach
\* C12 (amended): the same edges plus the fatal returns Init -> Failed,
\* Confirmed -> Failed and Enumerating -> Failed; Aborted, Done and Failed
\* are terminal, there is no retry edge, every enumerated instance gets
\* exactly one attempt in enumeration order with exactly one outcome, and at
\* Reporting the three outcome counts sum to the number enumerated.
C12_StateMachine ==
    /\ [][StepAlong(WorkflowEdges \cup FatalEdges)]_vars
    /\ []OneAttemptEach
C12_Witness ==
    /\ pc = "report" /\ Len(containers) = 3
    /\ Len(deleted) = 1 /\ Skipped = 1 /\ Len(warnings) = 1

\* client.Containers has returned the snapshot
SnapshotTaken == Called("Containers") /\ ~EnumerationFailed
\* the identifier was unused at enumeration time and a container holds or held it since
CreatedAfterwards(id) == SnapshotTaken /\ snap[id] = "none" /\ world[id] # "none"
AttemptedIds == {removeCalls[j].id : j \in 1..Len(removeCalls)}
\* prune works on the snapshot only and no removal failure aborts it
SnapshotOnly ==
    /\ \A j \in 1..Len(removeCalls) :
          /\ removeCalls[j].id = containers[j]
          /\ snap[containers[j]] \in {"stopped", "running"}
    /\ \A id \in IDs : CreatedAfterwards(id) => id \notin AttemptedIds
    /\ Range(deleted) \subseteq Range(containers)
    /\ SnapshotTaken =>
          /\ Range(containers) = Present(snap)
          /\ pc \in {"loop", "report", "done"}
          /\ (pc = "loop" => idx = Len(results) + 1 /\ idx <= Len(containers))
          /\ (pc # "loop" => AllAttempted)
          /\ (pc = "done" => ret = "nil")
\* the instance was not a stopped container when its removal was attempted
NotRemovable(i) == seen[i] # "stopped"
\* the instance was not in the state it had at enumeration time
ChangedState(i) == seen[i] # snap[containers[i]]
SkippedOrWarned(i) ==
    /\ results[i] \in {"statusError", "otherError"}
    /\ containers[i] \notin Range(deleted)
    /\ (results[i] = "otherError") <=> (WarningsFor(containers[i]) # {})

\* C14 (as stated): under concurrent changes prune acts on the snapshot only,
\* once per snapshot instance and never on a later instance, the DeletedSet
\* stays within the snapshot, a snapshot instance that vanished or changed
\* state yields a skip or a warning, and the command succeeds.
C14_Original ==
    /\ SnapshotOnly
    /\ \A i \in 1..Len(seen) : ChangedState(i) => SkippedOrWarned(i)
\* C14 (amended): as stated, except that the skip or warning is the outcome
\* for a snapshot instance that has vanished or is running when its removal
\* is attempted; one that is stopped by then may be deleted, whatever its
\* state was at enumeration time.
C14_SnapshotOnly ==
    /\ SnapshotOnly
    /\ \A i \in 1..Len(seen) :
          /\ NotRemovable(i) => SkippedOrWarned(i)
          /\ seen[i] = "gone" => results[i] = "otherError"
C14_Witness ==
    /\ pc = "done" /\ ret = "nil"
    /\ \E i \in 1..Len(seen) : seen[i] = "gone" /\ snap[containers[i]] = "stopped"
    /\ \E id \in IDs : CreatedAfterwards(id) /\ world[id] = "stopped"
    /\ deleted # <<>>

\* the invocation has returned (Aborted, Done or a fatal error)
Terminal == pc = "done" /\ ret # "running"
\* the invocation sits in a runtime call that does not return
Hung == pc \in {"hungContainers", "hungRemove"}

\* C13: if every call returns the invocation eventually reaches a terminal
\* state (no behaviour runs forever without either returning or sitting in a
\* call that never returns), and an invocation whose enumeration or removal
\* call never returns stays blocked in that call for ever.
C13_Termination ==
    /\ <>(Terminal \/ Hung)
    /\ [][Hung => (Hung' /\ pc' = pc)]_vars
    /\ [](Hung => [](Hung /\ ret = "running" /\ cancels = 0))
    /\ [](Terminal => []Terminal)
C13_Witness ==
    /\ pc = "hungRemove" /\ Len(removeCalls) = 2 /\ Len(results) = 1
    /\ ret = "running"

====
